---- MODULE Spec2Model ----
(***************************************************************************)
(* Contact-form web backend (two Flask prototypes) and the Cognito         *)
(* pre-signup Lambda.                                                      *)
(*                                                                         *)
(* Text is modelled as a sequence of atoms (TLA+ strings that contain no   *)
(* "@" except the atom "@" itself), so that splitting, formatting and      *)
(* truthiness are computed, not assumed.  The empty text "" is << >>.      *)
(* A Python value that may be None is a set: None is {} and a text v is    *)
(* {v}.                                                                    *)
(***************************************************************************)
EXTENDS Naturals, Integers, Sequences, FiniteSets, TLC

VARIABLES debug, route_enabled, pc, req, resp, puts, put_result, printed, lam

webvars == <<debug, route_enabled, pc, req, resp, puts, put_result, printed>>
vars == <<debug, route_enabled, pc, req, resp, puts, put_result, printed, lam>>

\* ------------------------------------------------------------------ bounds
\* Number of requests that can be in flight at the same time.
NumClients == 2
\* Longest e-mail address (in atoms) handed to the pre-signup Lambda.
MaxEmailLen == 4

Clients == 1..NumClients

\* ------------------------------------------------------------------ text
None == {}
Some(v) == {v}

\* Python truthiness of an optional text: None and "" are falsy.
Falsy(x) == x = None \/ x = Some(<< >>)

RECURSIVE Flatten(_)
\* Concatenation of a sequence of texts (an f-string's pieces).
Flatten(ss) == IF ss = << >> THEN << >> ELSE Head(ss) \o Flatten(Tail(ss))

RECURSIVE split(_, _)
\* str.split(sep): the list of the pieces between the occurrences of sep;
\* a text without sep gives a one-element list.
split(s, sep) ==
    IF \E i \in 1..Len(s) : s[i] = sep
    THEN LET i == CHOOSE k \in 1..Len(s) :
                      s[k] = sep /\ \A j \in 1..(k - 1) : s[j] # sep
         IN <<SubSeq(s, 1, i - 1)>> \o split(SubSeq(s, i + 1, Len(s)), sep)
    ELSE <<s>>

\* ------------------------------------------------------------------ requests
FormKeys == {"first_name", "last_name", "email", "message"}

FieldValues(k) ==
    CASE k = "first_name" -> {<< >>, <<"Ada">>}
      [] k = "last_name"  -> {<< >>, <<"Lovelace">>}
      [] k = "email"      -> {<< >>, <<"ada">>, <<"ada", "@">>,
                              <<"ada", "@", "example.com">>}
      [] k = "message"    -> {<< >>, <<"hello">>}

AllFieldValues == UNION {FieldValues(k) : k \in FormKeys}

GoodForm ==
    [first_name |-> <<"Ada">>, last_name |-> <<"Lovelace">>,
     email |-> <<"ada", "@", "example.com">>, message |-> <<"hello">>]

\* A submitted form: any subset of the keys, each with one of its values.
AllForms ==
    UNION {{f \in [S -> AllFieldValues] : \A k \in S : f[k] \in FieldValues(k)} :
           S \in SUBSET FormKeys}

\* The number of fields in which a form departs from the complete one.
Defects(f) ==
    Cardinality({k \in FormKeys : k \notin DOMAIN f \/ f[k] # GoodForm[k]})

\* The forms the clients submit: the complete form and every form that
\* departs from it in one field (a key left out, or another value).
Forms == {f \in AllForms : Defects(f) <= 1}

NoForm == [k \in {} |-> << >>]

GetRoutes == {"ping", "index", "contact", "dashboard"}
\* "submit_contact" is the second prototype's POST route, "submit_contact_v1"
\* the first prototype's.
PostRoutes == {"submit_contact", "submit_contact_v1"}

Requests ==
    [route : GetRoutes, form : {NoForm}] \cup [route : PostRoutes, form : Forms]

NoRequest == [route |-> "none", form |-> NoForm]
NoResponse == [status |-> 0, headers |-> {}, body |-> [none |-> << >>]]

\* request.form.get(k): None when the key was not submitted.
form_get(form, k) == IF k \in DOMAIN form THEN Some(form[k]) ELSE None

\* The keys the second prototype's handler indexes, in the order it does.
KeyOrder == <<"first_name", "last_name", "email", "message">>

\* request.form[k] for each k of KeyOrder: the first key that is missing
\* (the one whose lookup raises BadRequestKeyError), or "" when none is.
FirstMissing(form) ==
    IF \A i \in 1..Len(KeyOrder) : KeyOrder[i] \in DOMAIN form
    THEN ""
    ELSE KeyOrder[CHOOSE i \in 1..Len(KeyOrder) :
                      /\ KeyOrder[i] \notin DOMAIN form
                      /\ \A j \in 1..(i - 1) : KeyOrder[j] \in DOMAIN form]

\* ------------------------------------------------------------------ responses
JsonHeader == <<"Content-Type", "application/json">>
TextHeader == <<"Content-Type", "text/html; charset=utf-8">>

jsonify(status, body) ==
    [status |-> status, headers |-> {JsonHeader}, body |-> body]

text_response(t) ==
    [status |-> 200, headers |-> {TextHeader}, body |-> [text |-> <<t>>]]

\* What Flask answers when request.form[key] raises BadRequestKeyError.
\* Outside debug mode the HTTP exception is rendered as 400 Bad Request.
\* In debug mode (TRAP_BAD_REQUEST_ERRORS unset) the key error is trapped
\* and re-raised as an unhandled exception, which the development server's
\* debugger renders as a 500 page with the traceback.
bad_request_key(key) ==
    IF debug
    THEN [status |-> 500, headers |-> {TextHeader},
          body |-> [html |-> <<"BadRequestKeyError: KeyError: ", key>>]]
    ELSE [status |-> 400, headers |-> {TextHeader},
          body |-> [html |-> <<"400 Bad Request">>]]

\* A request for a route the application does not register.
not_found == [status |-> 404, headers |-> {TextHeader},
              body |-> [html |-> <<"404 Not Found">>]]

\* Client c's request ends with response r.
Respond(c, r) ==
    /\ resp' = [resp EXCEPT ![c] = r]
    /\ pc' = [pc EXCEPT ![c] = "done"]

Handling(c, route) == pc[c] = "received" /\ req[c].route = route

\* ------------------------------------------------------------------ Init
Init ==
    /\ debug \in BOOLEAN
    /\ route_enabled \in BOOLEAN
    /\ pc = [c \in Clients |-> "idle"]
    /\ req = [c \in Clients |-> NoRequest]
    /\ resp = [c \in Clients |-> NoResponse]
    /\ puts = [c \in Clients |-> << >>]
    /\ put_result = [c \in Clients |-> "none"]
    /\ printed = [c \in Clients |-> << >>]
    /\ lam = [state |-> "idle"]

\* A client whose previous request (if any) has been answered sends a new
\* request; the per-request records start empty.
Arrive(c, r) ==
    /\ pc[c] \in {"idle", "done"}
    /\ pc' = [pc EXCEPT ![c] = "received"]
    /\ req' = [req EXCEPT ![c] = r]
    /\ resp' = [resp EXCEPT ![c] = NoResponse]
    /\ puts' = [puts EXCEPT ![c] = << >>]
    /\ put_result' = [put_result EXCEPT ![c] = "none"]
    /\ printed' = [printed EXCEPT ![c] = << >>]
    /\ UNCHANGED <<debug, route_enabled, lam>>

\* ------------------------------------------------------------------ GET routes
\* ping without the Access-Control-Allow-Origin header.
ping_without_cors(c) ==
    /\ Handling(c, "ping")
    /\ Respond(c, jsonify(200, [status |-> <<"alive">>]))
    /\ UNCHANGED <<debug, route_enabled, req, puts, put_result, printed, lam>>

ping(c) ==
    /\ Handling(c, "ping")
    /\ Respond(c, [status |-> 200,
                   headers |-> {JsonHeader,
                                <<"Access-Control-Allow-Origin", "*">>,
                                <<"Access-Control-Allow-Methods", "GET, POST, OPTIONS">>,
                                <<"Access-Control-Allow-Headers", "Content-Type">>},
                   body |-> [status |-> <<"alive">>]])
    /\ UNCHANGED <<debug, route_enabled, req, puts, put_result, printed, lam>>

index(c) ==
    /\ Handling(c, "index")
    /\ Respond(c, text_response("Welcome to Connecting The Dots!"))
    /\ UNCHANGED <<debug, route_enabled, req, puts, put_result, printed, lam>>

contact(c) ==
    /\ Handling(c, "contact")
    /\ Respond(c, text_response("Contact Page"))
    /\ UNCHANGED <<debug, route_enabled, req, puts, put_result, printed, lam>>

dashboard(c) ==
    /\ Handling(c, "dashboard")
    /\ Respond(c, text_response("Dashboard Page"))
    /\ UNCHANGED <<debug, route_enabled, req, puts, put_result, printed, lam>>

\* ------------------------------------------------------------------ POST /submit_contact (second prototype)
SuccessBody ==
    [status |-> <<"success">>, message |-> <<"Form submitted successfully!">>]

\* The line the handler prints for a form that has all four keys.
console_line(form) ==
    Flatten(<< <<"Received contact form: ">>, form["first_name"], <<" ">>,
               form["last_name"], <<", ">>, form["email"], <<", ">>,
               form["message"] >>)

\* submit_contact reading the form from a request object shared by all
\* requests: it sees the form of another submission that is in flight.
submit_contact_shared_request(c) ==
    /\ Handling(c, "submit_contact")
    /\ LET others == {d \in Clients \ {c} : Handling(d, "submit_contact")}
           form == IF others = {} THEN req[c].form
                   ELSE req[CHOOSE d \in others : TRUE].form
           missing == FirstMissing(form)
       IN IF missing # ""
          THEN /\ Respond(c, bad_request_key(missing))
               /\ UNCHANGED printed
          ELSE /\ printed' = [printed EXCEPT ![c] = Append(@, console_line(form))]
               /\ Respond(c, jsonify(200, SuccessBody))
    /\ UNCHANGED <<debug, route_enabled, req, puts, put_result, lam>>

submit_contact(c) ==
    /\ Handling(c, "submit_contact")
    /\ LET form == req[c].form
           missing == FirstMissing(form)
       IN IF missing # ""
          THEN /\ Respond(c, bad_request_key(missing))
               /\ UNCHANGED printed
          ELSE /\ printed' = [printed EXCEPT ![c] = Append(@, console_line(form))]
               /\ Respond(c, jsonify(200, SuccessBody))
    /\ UNCHANGED <<debug, route_enabled, req, puts, put_result, lam>>

\* ------------------------------------------------------------------ POST /submit_contact (first prototype)
\* The first prototype's handler is commented out in the source ("If you're
\* using the contact form, enable this route").  route_enabled says whether
\* the deployment has enabled it; while it is not, Flask has no such route.
\* The handler's names request and redirect are flask's.

\* What boto3.resource("dynamodb") can do before any item is written.
ResourceOutcomes == {"ok", "NoRegionError"}
\* The ways table.put_item can fail.
StorageErrors == {"ResourceNotFoundException",
                  "ProvisionedThroughputExceededException"}
PutOutcomes == {"ok"} \cup StorageErrors

\* str(e) of the exception the try block caught.
str_of_exception(e) ==
    IF e = "NoRegionError"
    THEN <<"You must specify a region.">>
    ELSE <<"An error occurred (", e, ") when calling the PutItem operation">>

\* The Item the handler hands to table.put_item.
put_item_Item(form) ==
    [email |-> form_get(form, "email"),
     first_name |-> form_get(form, "first_name"),
     last_name |-> form_get(form, "last_name"),
     job_title |-> form_get(form, "job_title"),
     phone_number |-> form_get(form, "phone_number"),
     company |-> form_get(form, "company")]

\* The handler up to its call of table.put_item (which blocks on the network).
submit_contact_v1(c) ==
    /\ Handling(c, "submit_contact_v1")
    /\ LET form == req[c].form
       IN IF ~route_enabled
          THEN /\ Respond(c, not_found)
               /\ UNCHANGED <<puts, put_result>>
          ELSE IF \/ Falsy(form_get(form, "first_name"))
                  \/ Falsy(form_get(form, "last_name"))
                  \/ Falsy(form_get(form, "email"))
          THEN /\ Respond(c, jsonify(400, [error |-> <<"Required fields are missing">>]))
               /\ UNCHANGED <<puts, put_result>>
          ELSE \E r \in ResourceOutcomes :
                  IF r # "ok"
                  THEN /\ Respond(c, jsonify(500, [error |-> str_of_exception(r)]))
                       /\ UNCHANGED <<puts, put_result>>
                  ELSE /\ puts' = [puts EXCEPT ![c] = Append(@, put_item_Item(form))]
                       /\ put_result' = [put_result EXCEPT ![c] = "pending"]
                       /\ pc' = [pc EXCEPT ![c] = "putting"]
                       /\ UNCHANGED resp
    /\ UNCHANGED <<debug, route_enabled, req, printed, lam>>

\* The storage collaborator answers the pending put_item: it returns, or
\* raises one of its errors.
put_item_reply(c, outcome) ==
    /\ pc[c] = "putting"
    /\ put_result' = [put_result EXCEPT ![c] = outcome]
    /\ pc' = [pc EXCEPT ![c] = "put_returned"]
    /\ UNCHANGED <<debug, route_enabled, req, resp, puts, printed, lam>>

\* submit_contact_v1_resume calling put_item again when it has failed.
submit_contact_v1_resume_retry(c) ==
    /\ pc[c] = "put_returned"
    /\ IF put_result[c] = "ok"
       THEN /\ Respond(c, [status |-> 302,
                           headers |-> {TextHeader, <<"Location", "/contact">>},
                           body |-> [html |-> <<"Redirecting...">>]])
            /\ UNCHANGED <<puts, put_result>>
       ELSE /\ puts' = [puts EXCEPT ![c] = Append(@, put_item_Item(req[c].form))]
            /\ put_result' = [put_result EXCEPT ![c] = "pending"]
            /\ pc' = [pc EXCEPT ![c] = "putting"]
            /\ UNCHANGED resp
    /\ UNCHANGED <<debug, route_enabled, req, printed, lam>>

\* The handler after put_item: the redirect, or the except clause.
submit_contact_v1_resume(c) ==
    /\ pc[c] = "put_returned"
    /\ IF put_result[c] = "ok"
       THEN Respond(c, [status |-> 302,
                        headers |-> {TextHeader, <<"Location", "/contact">>},
                        body |-> [html |-> <<"Redirecting...">>]])
       ELSE Respond(c, jsonify(500, [error |-> str_of_exception(put_result[c])]))
    /\ UNCHANGED <<debug, route_enabled, req, puts, put_result, printed, lam>>

Next ==
    \/ \E c \in Clients, r \in Requests : Arrive(c, r)
    \/ \E c \in Clients : ping(c)
    \/ \E c \in Clients : index(c)
    \/ \E c \in Clients : contact(c)
    \/ \E c \in Clients : dashboard(c)
    \/ \E c \in Clients : submit_contact(c)
    \/ \E c \in Clients : submit_contact_v1(c)
    \/ \E c \in Clients, o \in PutOutcomes : put_item_reply(c, o)
    \/ \E c \in Clients : submit_contact_v1_resume(c)

Spec == Init /\ [][Next]_vars

\* ------------------------------------------------------------------ pre-signup Lambda
EmailAtoms == {"u", "@", "example.com", "connectingthedots.com", "other.org"}

\* Every text of at most MaxEmailLen atoms.
Emails == UNION {[1..n -> EmailAtoms] : n \in 0..MaxEmailLen}

allowed_domains == {<<"example.com">>, <<"connectingthedots.com">>}

\* The Cognito pre-signup event for a user with this e-mail attribute.
signup_event(email) == [request |-> [userAttributes |-> [email |-> email]]]

\* One invocation of the Lambda: it returns the event, or raises.
lambda_handler(event) ==
    /\ LET email == event.request.userAttributes.email
           parts == split(email, "@")
       IN IF Len(parts) < 2
          THEN lam' = [state |-> "raised", event |-> event,
                       exception |-> "IndexError",
                       message |-> "list index out of range"]
          ELSE IF parts[2] \notin allowed_domains
          THEN lam' = [state |-> "raised", event |-> event,
                       exception |-> "Exception",
                       message |-> "Invalid email domain. Only @example.com and @connectingthedots.com are allowed."]
          ELSE lam' = [state |-> "returned", event |-> event, result |-> event]
    /\ UNCHANGED webvars

NextLambda == \E email \in Emails : lambda_handler(signup_event(email))

SpecLambda == Init /\ [][NextLambda]_vars

\* ------------------------------------------------------------------ vocabulary of the claims
RequiredKeys == {"first_name", "last_name", "email"}

Done(c) == pc[c] = "done"
IsSubmit(c) == req[c].route \in PostRoutes
ClientError(r) == r.status >= 400 /\ r.status <= 499
ServerError(r) == r.status >= 500 /\ r.status <= 599
IsSuccessAck(r) == r.status = 200 /\ r.body = SuccessBody
MissingRequired(form) == \E k \in RequiredKeys : k \notin DOMAIN form
EmptyRequired(form) == \E k \in RequiredKeys : k \in DOMAIN form /\ form[k] = << >>
AllRequiredNonEmpty(form) ==
    \A k \in RequiredKeys : k \in DOMAIN form /\ form[k] # << >>
\* An "@" with something after it.
HasDomainPart(email) == \E i \in 1..Len(email) : email[i] = "@" /\ i < Len(email)
PutFailed(c) == put_result[c] \in StorageErrors
\* The error of a response names field k.
ErrorNames(r, k) ==
    /\ "error" \in DOMAIN r.body
    /\ \E i \in 1..Len(r.body.error) : r.body.error[i] = k
ItemMatches(item, form) ==
    \A k \in RequiredKeys : item[k] = Some(form[k])

\* C1: a SubmitContact request that lacks first_name, last_name or email is
\* answered with a client error (4xx) and Storage.Put is never invoked for it.
C1_MissingFieldIsClientError ==
    \A c \in Clients :
        (Done(c) /\ IsSubmit(c) /\ MissingRequired(req[c].form))
            => (ClientError(resp[c]) /\ puts[c] = << >>)

\* C2: a SubmitContact request whose required fields are present and
\* non-empty and whose email is well-formed gets the success acknowledgement
\* and exactly one Storage.Put, of a submission equal to the request's fields.
C2_ValidSubmissionStoredOnce ==
    \A c \in Clients :
        (/\ Done(c) /\ IsSubmit(c)
         /\ AllRequiredNonEmpty(req[c].form)
         /\ HasDomainPart(req[c].form["email"]))
            => (/\ IsSuccessAck(resp[c])
                /\ Len(puts[c]) = 1
                /\ ItemMatches(puts[c][1], req[c].form))

\* C3: a SubmitContact request with an empty required field is rejected with
\* a 400-class response whose error names that field.
C3_EmptyFieldRejected ==
    \A c \in Clients :
        (Done(c) /\ IsSubmit(c) /\ EmptyRequired(req[c].form))
            => (/\ ClientError(resp[c])
                /\ \E k \in RequiredKeys :
                      /\ k \in DOMAIN req[c].form
                      /\ req[c].form[k] = << >>
                      /\ ErrorNames(resp[c], k))

\* C4: the success acknowledgement is returned only for a submission whose
\* email has an "@" followed by a domain part.
C4_AcceptedOnlyWithDomain ==
    \A c \in Clients :
        (Done(c) /\ IsSubmit(c) /\ IsSuccessAck(resp[c]))
            => (/\ "email" \in DOMAIN req[c].form
                /\ HasDomainPart(req[c].form["email"]))

C7_PingAliveNoEffects ==
    [][\A c \in Clients :
         (Handling(c, "ping") /\ pc'[c] # "received")
            => (/\ pc'[c] = "done"
                /\ resp'[c].status = 200
                /\ resp'[c].body = [status |-> <<"alive">>]
                /\ <<"Access-Control-Allow-Origin", "*">> \in resp'[c].headers
                /\ puts' = puts /\ put_result' = put_result
                /\ printed' = printed /\ req' = req
                /\ debug' = debug /\ route_enabled' = route_enabled
                /\ \A d \in Clients \ {c} : pc'[d] = pc[d] /\ resp'[d] = resp[d])]_vars

\* A ping answered while another client's submission has already been
\* answered.
C7_Witness ==
    \E c, d \in Clients :
        /\ Done(c) /\ req[c].route = "ping" /\ resp[c].status = 200
        /\ Done(d) /\ IsSubmit(d)

\* Everything the service holds for client c.
Slot(c) == <<pc[c], req[c], resp[c], puts[c], put_result[c], printed[c]>>

\* C9: requests are independent: two answered requests with the same inputs
\* and the same Storage.Put outcome have the same response, Put and console
\* output, however they were interleaved with other requests; and no step
\* touches the state of more than one request or the configuration.
C9_RequestsIndependent ==
    /\ [](\A c, d \in Clients :
            (Done(c) /\ Done(d) /\ req[c] = req[d] /\ put_result[c] = put_result[d])
                => (/\ resp[c] = resp[d]
                    /\ puts[c] = puts[d]
                    /\ printed[c] = printed[d]))
    /\ [][/\ debug' = debug /\ route_enabled' = route_enabled
          /\ \A c, d \in Clients :
                (c # d /\ Slot(c)' # Slot(c)) => Slot(d)' = Slot(d)]_vars

\* Two clients submitted the same complete form at the same time and both
\* have been answered.
C9_Witness ==
    \E c, d \in Clients :
        /\ c # d /\ Done(c) /\ Done(d)
        /\ req[c] = req[d] /\ req[c].route = "submit_contact"
        /\ req[c].form = GoodForm
        /\ printed[c] # << >>

\* C10: the second prototype's handler returns the success acknowledgement
\* exactly when all four form keys are present; a request lacking a key gets
\* a client error and prints nothing.
C10_SuccessIffFourKeys ==
    \A c \in Clients :
        (Done(c) /\ req[c].route = "submit_contact")
            => (/\ IsSuccessAck(resp[c]) <=> FormKeys \subseteq DOMAIN req[c].form
                /\ ~(FormKeys \subseteq DOMAIN req[c].form)
                      => (ClientError(resp[c]) /\ printed[c] = << >>))

\* The part of an address after its "@", for an address with exactly one.
DomainOf(email) ==
    LET i == CHOOSE k \in 1..Len(email) : email[k] = "@"
    IN SubSeq(email, i + 1, Len(email))

\* Exactly one "@", and the part after it is in the allow-list.
DomainAllowed(email) ==
    /\ Cardinality({k \in 1..Len(email) : email[k] = "@"}) = 1
    /\ DomainOf(email) \in allowed_domains

\* C8: the pre-signup Lambda returns the event unchanged exactly for the
\* addresses whose domain is in the allow-list; for every other address
\* (no "@", several "@", another domain) it raises and blocks the sign-up.
C8_AllowedIffDomainListed ==
    lam.state # "idle" =>
        LET email == lam.event.request.userAttributes.email
        IN IF DomainAllowed(email)
           THEN lam.state = "returned" /\ lam.result = lam.event
           ELSE lam.state = "raised"
====
